---- MODULE Spec2Model ----
(***************************************************************************)
(* A model of two parts of resvg:                                          *)
(*   - usvg/src/mask.rs: mask::convert, the resolution of `mask` elements   *)
(*     into shared Mask instances through converter::Cache (Spec, and       *)
(*     RectSpec for the rectangle of a mask);                               *)
(*   - resvg-skia/src/lib.rs: the four render entry points and the          *)
(*     traversal they start (RenderSpec).                                   *)
(***************************************************************************)
EXTENDS Integers, Sequences, FiniteSets, TLC

VARIABLES
    doc,        \* the rosvgtree document: element id -> element
    masks,      \* converter::Cache.masks: element id -> Rc<Mask> (an index of heap)
    heap,       \* every Rc<Mask> allocated so far, in allocation order
    stack,      \* the call stack of mask::convert, innermost frame last
    ret,        \* <<>> or <<v>>: the value the last finished convert returned
    call,       \* <<>> or <<[node, state]>>: the arguments of the top-level call
    returned,   \* history: every <<element id, Rc>> some convert has returned
    hits,       \* history: the elements some convert has found in the cache
    crashed,    \* the call stack is exhausted: the process has aborted
    log,        \* history: the warnings logged since the top-level call began
    tree,       \* the usvg::Tree that is rendered
    rcall,      \* <<>> or <<c>>: the render entry point called last and its arguments
    rpc,        \* "idle", or "running" while a render call is in progress
    rstate,     \* <<>> before any render call, or <<s>>: the call's RenderState
    rcreated,   \* history: the RenderStates the last top-level call has created
    rprev,      \* history: the RenderState the traversal before this one ended with
    rstack,     \* the recursion of the traversal, innermost frame last
    layers,     \* the offscreen layers allocated and not yet released, newest last
    canvas,     \* what has been drawn on the root surface or the caller's canvas
    result,     \* <<>> or <<v>>: what the last image entry point returned
    rlog        \* history: the warnings the last render call has logged

mvars == <<doc, masks, heap, stack, ret, call, returned, hits, crashed, log>>

rvars == <<tree, rcall, rpc, rstate, rcreated, rprev, rstack, layers, canvas, result,
          rlog>>

vars == <<mvars, rvars>>

-----------------------------------------------------------------------------
(* Option<T> *)
None == <<>>
Some(x) == <<x>>

(* The elements of the document. *)
Elems == {"a", "b"}

(* The depth of the call stack at which the process runs out of stack. *)
MaxDepth == 4

(* usvg::Units *)
ObjectBoundingBox == "objectBoundingBox"
UserSpaceOnUse == "userSpaceOnUse"

(* svgtypes::Length, the number in its own unit. *)
Length(n, u) == [number |-> n, unit |-> u]

(* The x, y, width, height, maskUnits and maskContentUnits attributes an      *)
(* element may carry; an absent attribute is None.                            *)
NoAttrs ==
    [maskUnits |-> None, maskContentUnits |-> None,
     x |-> None, y |-> None, width |-> None, height |-> None]

AttrSets ==
    { NoAttrs,
      [NoAttrs EXCEPT !.width = Some(Length(0, "none"))],
      [NoAttrs EXCEPT !.maskUnits = Some(UserSpaceOnUse)] }

(* The content of an element: children the converter turns into a node       *)
(* ("shape") and children it drops ("empty").                                 *)
Contents == { <<>>, <<"empty">>, <<"shape">>, <<"shape", "empty">> }

Elements ==
    [tag : {"mask", "g"}, attrs : AttrSets,
     link : {None} \cup {Some(e) : e \in Elems}, children : Contents]

(* converter::State: what convert_length reads of it is the view box.         *)
States == { [view_box |-> [w |-> 100, h |-> 50]],
            [view_box |-> [w |-> 20, h |-> 20]] }

-----------------------------------------------------------------------------
(* SvgNodeExt::convert_length: the attribute, or the default when it is      *)
(* absent, in user units. Values are in hundredths of a user unit.           *)
convert_length(node, aid, units, state, def) ==
    LET a == doc[node].attrs[aid]
        len == IF a = None THEN def ELSE a[1]
    IN  CASE len.unit = "none" -> len.number * 100
          [] len.unit = "percent" /\ units = ObjectBoundingBox -> len.number
          [] len.unit = "percent" /\ aid \in {"x", "width"} ->
                state.view_box.w * len.number
          [] OTHER -> state.view_box.h * len.number

(* Rect::new: None unless both sizes are positive. *)
RectNew(x, y, w, h) ==
    IF w > 0 /\ h > 0 THEN Some([x |-> x, y |-> y, width |-> w, height |-> h])
    ELSE None

(* mask.rs 64-66 *)
MaskUnitsOf(node) ==
    LET a == doc[node].attrs.maskUnits
    IN  IF a = None THEN ObjectBoundingBox ELSE a[1]

(* mask.rs 67-69 *)
MaskContentUnitsOf(node) ==
    LET a == doc[node].attrs.maskContentUnits
    IN  IF a = None THEN UserSpaceOnUse ELSE a[1]

(* Mutant of MaskRect: the default of `width` is 100%. *)
MaskRectNarrow(node, state) ==
    LET units == MaskUnitsOf(node)
    IN  RectNew(
            convert_length(node, "x", units, state, Length(-10, "percent")),
            convert_length(node, "y", units, state, Length(-10, "percent")),
            convert_length(node, "width", units, state, Length(100, "percent")),
            convert_length(node, "height", units, state, Length(120, "percent")))

(* mask.rs 71-76 *)
MaskRect(node, state) ==
    LET units == MaskUnitsOf(node)
    IN  RectNew(
            convert_length(node, "x", units, state, Length(-10, "percent")),
            convert_length(node, "y", units, state, Length(-10, "percent")),
            convert_length(node, "width", units, state, Length(120, "percent")),
            convert_length(node, "height", units, state, Length(120, "percent")))

(* converter::convert_children: appends a node to the parent for every child *)
(* that converts to one.                                                      *)
convert_children(node, root) ==
    root \o SelectSeq(doc[node].children, LAMBDA c : c = "shape")

(* Node::has_children *)
has_children(root) == Len(root) > 0

-----------------------------------------------------------------------------
(* The frame of one invocation of mask::convert. *)
Frame(node, state) ==
    [node |-> node, state |-> state, pc |-> "start", rect |-> None, mask |-> None]

Top == stack[Len(stack)]

Running == ~crashed /\ stack # <<>>

(* `return v`: the frame is popped and the caller finds v. *)
Return(v) ==
    /\ stack' = SubSeq(stack, 1, Len(stack) - 1)
    /\ ret' = Some(v)
    /\ returned' = IF v = None THEN returned
                   ELSE returned \cup {<<Top.node, v[1]>>}

SetTop(f) == stack' = [stack EXCEPT ![Len(stack)] = f]

(* Mutant of CacheGet: the lookup never finds the element. *)
CacheGetMiss(id) == None

(* Mutant of CacheGet: an element whose conversion is in progress is found  *)
(* in the cache, as the instance that conversion is about to allocate.       *)
CacheGetInProgress(id) ==
    IF id \in DOMAIN masks THEN Some(masks[id])
    ELSE IF \E i \in 1..(Len(stack) - 1) : stack[i].node = id
         THEN Some(Len(heap) + 1)
         ELSE None

(* cache.masks.get(node.element_id()) *)
CacheGet(id) == IF id \in DOMAIN masks THEN Some(masks[id]) ELSE None

(* A caller (the converter) calls mask::convert(node, state, cache). *)
Call(node, state) ==
    /\ ~crashed
    /\ stack = <<>>
    /\ stack' = <<Frame(node, state)>>
    /\ call' = Some([node |-> node, state |-> state])
    /\ ret' = <<>>
    /\ log' = <<>>
    /\ UNCHANGED <<doc, masks, heap, returned, hits, crashed>>
    /\ UNCHANGED rvars

(* Mutant of NotMaskElement: an element that is no mask is converted like a *)
(* mask without a link.                                                      *)
NotMaskElementConverted ==
    /\ Running /\ Top.pc = "start"
    /\ doc[Top.node].tag # "mask"
    /\ IF MaskRect(Top.node, Top.state) = None
       THEN /\ Return(None)
       ELSE /\ SetTop([Top EXCEPT !.pc = "children",
                                  !.rect = MaskRect(Top.node, Top.state)])
            /\ UNCHANGED <<ret, returned>>
    /\ UNCHANGED <<doc, masks, heap, call, hits, crashed, log>>
    /\ UNCHANGED rvars

(* mask.rs 54-57 *)
NotMaskElement ==
    /\ Running /\ Top.pc = "start"
    /\ doc[Top.node].tag # "mask"
    /\ Return(None)
    /\ UNCHANGED <<doc, masks, heap, call, hits, crashed, log>>
    /\ UNCHANGED rvars

(* Mutant of CacheHit: the rectangle of the cached Mask is computed again   *)
(* under the state of this call.                                             *)
CacheHitRecomputes ==
    /\ Running /\ Top.pc = "start"
    /\ doc[Top.node].tag = "mask"
    /\ CacheGet(Top.node) # None
    /\ heap' = [heap EXCEPT ![CacheGet(Top.node)[1]].rect =
                    IF MaskRect(Top.node, Top.state) = None THEN @
                    ELSE MaskRect(Top.node, Top.state)[1]]
    /\ Return(CacheGet(Top.node))
    /\ hits' = hits \cup {Top.node}
    /\ UNCHANGED <<doc, masks, call, crashed, log>>
    /\ UNCHANGED rvars

(* mask.rs 59-62 *)
CacheHit ==
    /\ Running /\ Top.pc = "start"
    /\ doc[Top.node].tag = "mask"
    /\ CacheGet(Top.node) # None
    /\ Return(CacheGet(Top.node))
    /\ hits' = hits \cup {Top.node}
    /\ UNCHANGED <<doc, masks, heap, call, crashed, log>>
    /\ UNCHANGED rvars

(* The frame got past the tag check and the cache lookup. *)
Missed ==
    /\ Running /\ Top.pc = "start"
    /\ doc[Top.node].tag = "mask"
    /\ CacheGet(Top.node) = None

(* mask.rs 78: "Mask '{}' has an invalid size. Skipped." *)
InvalidSize(id) == [level |-> "warn", msg |-> "invalid size", id |-> id]

(* Mutant of InvalidRect: the rectangle is looked at only after the linked  *)
(* mask has been resolved.                                                   *)
InvalidRectLate ==
    \/ /\ Missed
       /\ MaskRect(Top.node, Top.state) = None
       /\ doc[Top.node].link # None
       /\ Len(stack) < MaxDepth
       /\ stack' = [stack EXCEPT ![Len(stack)] = [Top EXCEPT !.pc = "late"]]
                   \o <<Frame(doc[Top.node].link[1], Top.state)>>
       /\ ret' = <<>>
       /\ UNCHANGED <<doc, masks, heap, call, returned, hits, crashed, log>>
       /\ UNCHANGED rvars
    \/ /\ \/ Missed /\ MaskRect(Top.node, Top.state) = None
                    /\ doc[Top.node].link = None
          \/ Running /\ Top.pc = "late" /\ ret # <<>>
       /\ log' = Append(log, InvalidSize(Top.node))
       /\ Return(None)
       /\ UNCHANGED <<doc, masks, heap, call, hits, crashed>>
       /\ UNCHANGED rvars

(* mask.rs 71-78: the rectangle is invalid; a warning is logged *)
InvalidRect ==
    /\ Missed
    /\ MaskRect(Top.node, Top.state) = None
    /\ log' = Append(log, InvalidSize(Top.node))
    /\ Return(None)
    /\ UNCHANGED <<doc, masks, heap, call, hits, crashed>>
    /\ UNCHANGED rvars

(* mask.rs 80-83: the element links to another one, which is resolved first *)
ResolveLink ==
    /\ Missed
    /\ MaskRect(Top.node, Top.state) # None
    /\ doc[Top.node].link # None
    /\ Len(stack) < MaxDepth
    /\ stack' = [stack EXCEPT ![Len(stack)] =
                    [Top EXCEPT !.pc = "linked",
                                !.rect = MaskRect(Top.node, Top.state)]]
                \o <<Frame(doc[Top.node].link[1], Top.state)>>
    /\ ret' = <<>>
    /\ UNCHANGED <<doc, masks, heap, call, returned, hits, crashed, log>>
    /\ UNCHANGED rvars

(* mask.rs 83: the recursive call finds no stack left *)
StackOverflow ==
    /\ Missed
    /\ MaskRect(Top.node, Top.state) # None
    /\ doc[Top.node].link # None
    /\ Len(stack) >= MaxDepth
    /\ crashed' = TRUE
    /\ UNCHANGED <<doc, masks, heap, stack, ret, call, returned, hits, log>>
    /\ UNCHANGED rvars

(* mask.rs 80-82: the element has no link *)
NoLink ==
    /\ Missed
    /\ MaskRect(Top.node, Top.state) # None
    /\ doc[Top.node].link = None
    /\ SetTop([Top EXCEPT !.pc = "children",
                          !.rect = MaskRect(Top.node, Top.state)])
    /\ UNCHANGED <<doc, masks, heap, ret, call, returned, hits, crashed, log>>
    /\ UNCHANGED rvars

(* Mutant of LinkInvalid: the invalid link is dropped and the conversion    *)
(* goes on without it.                                                        *)
LinkInvalidDropped ==
    /\ Running /\ Top.pc = "linked" /\ ret # <<>>
    /\ ret[1] = None
    /\ SetTop([Top EXCEPT !.pc = "children", !.mask = None])
    /\ ret' = <<>>
    /\ UNCHANGED <<doc, masks, heap, call, returned, hits, crashed, log>>
    /\ UNCHANGED rvars

(* mask.rs 83-88: the linked mask is invalid *)
LinkInvalid ==
    /\ Running /\ Top.pc = "linked" /\ ret # <<>>
    /\ ret[1] = None
    /\ Return(None)
    /\ UNCHANGED <<doc, masks, heap, call, hits, crashed, log>>
    /\ UNCHANGED rvars

(* mask.rs 83-89: the linked mask is valid *)
LinkValid ==
    /\ Running /\ Top.pc = "linked" /\ ret # <<>>
    /\ ret[1] # None
    /\ SetTop([Top EXCEPT !.pc = "children", !.mask = ret[1]])
    /\ ret' = <<>>
    /\ UNCHANGED <<doc, masks, heap, call, returned, hits, crashed, log>>
    /\ UNCHANGED rvars

(* mask.rs 91-100: the Mask with its content converted *)
NewMask(f) ==
    [id |-> f.node,
     units |-> MaskUnitsOf(f.node),
     content_units |-> MaskContentUnitsOf(f.node),
     rect |-> f.rect[1],
     mask |-> f.mask,
     root |-> convert_children(f.node, <<>>)]

(* Mutant of StoreMask: the Mask gets a copy of its linked Mask, not the    *)
(* shared instance.                                                          *)
StoreMaskCopiesLink ==
    /\ Running /\ Top.pc = "children"
    /\ has_children(NewMask(Top).root)
    /\ LET copied == IF Top.mask = None THEN <<>> ELSE <<heap[Top.mask[1]]>>
           own == Len(heap) + Len(copied) + 1
       IN  /\ heap' = heap \o copied
                      \o <<[NewMask(Top) EXCEPT !.mask =
                                IF Top.mask = None THEN None ELSE Some(own - 1)]>>
           /\ masks' = [id \in DOMAIN masks \cup {Top.node} |->
                           IF id = Top.node THEN own ELSE masks[id]]
           /\ Return(Some(own))
    /\ UNCHANGED <<doc, call, hits, crashed, log>>
    /\ UNCHANGED rvars

(* mask.rs 91-107: the mask has children, is shared, cached and returned *)
StoreMask ==
    /\ Running /\ Top.pc = "children"
    /\ has_children(NewMask(Top).root)
    /\ heap' = Append(heap, NewMask(Top))
    /\ masks' = [id \in DOMAIN masks \cup {Top.node} |->
                    IF id = Top.node THEN Len(heap) + 1 ELSE masks[id]]
    /\ Return(Some(Len(heap) + 1))
    /\ UNCHANGED <<doc, call, hits, crashed, log>>
    /\ UNCHANGED rvars

(* Mutant of EmptyMask: the mask without children is cached and returned. *)
EmptyMaskStored ==
    /\ Running /\ Top.pc = "children"
    /\ ~has_children(NewMask(Top).root)
    /\ heap' = Append(heap, NewMask(Top))
    /\ masks' = [id \in DOMAIN masks \cup {Top.node} |->
                    IF id = Top.node THEN Len(heap) + 1 ELSE masks[id]]
    /\ Return(Some(Len(heap) + 1))
    /\ UNCHANGED <<doc, call, hits, crashed, log>>
    /\ UNCHANGED rvars

(* Mutant of EmptyMask: the entry of the linked mask is taken back out of   *)
(* the cache when the mask turns out to have no children.                    *)
EmptyMaskEvictsLink ==
    /\ Running /\ Top.pc = "children"
    /\ ~has_children(NewMask(Top).root)
    /\ masks' = [id \in { k \in DOMAIN masks : Some(masks[k]) # Top.mask } |->
                    masks[id]]
    /\ Return(None)
    /\ UNCHANGED <<doc, heap, call, hits, crashed, log>>
    /\ UNCHANGED rvars

(* mask.rs 91-100, 108-111: a mask without children is invalid *)
EmptyMask ==
    /\ Running /\ Top.pc = "children"
    /\ ~has_children(NewMask(Top).root)
    /\ Return(None)
    /\ UNCHANGED <<doc, masks, heap, call, hits, crashed, log>>
    /\ UNCHANGED rvars

-----------------------------------------------------------------------------
(* Rendering: resvg-skia/src/lib.rs and the traversal of the render module. *)

(* usvg::Tree: the nodes of the scene. `r` is the root; `g` and `h` are     *)
(* groups whose attributes vary; `e` is a group without content. The paths  *)
(* are opaque, each filled with a colour of its own, and overlap.           *)
Path(color) == [kind |-> "Path", fill |-> color]

Group(children, opacity, mask, clip_path, filters) ==
    [kind |-> "Group", children |-> children, opacity |-> opacity,
     mask |-> mask, clip_path |-> clip_path, filters |-> filters]

PlainGroup(children) == Group(children, 100, None, FALSE, <<>>)

(* A group's `mask`: None, or the chain of masks its Mask starts. *)
MaskRefs == { None, <<"m1">>, <<"m1", "m2">> }

GroupAttrs ==
    [opacity : {100, 50}, mask : MaskRefs, clip_path : BOOLEAN,
     filters : {<<>>, <<"f1">>}]

SceneNodes(ga, ha) ==
    [r |-> PlainGroup(<<"p1", "g", "e", "p2">>),
     g |-> Group(<<"p3", "h", "p4">>, ga.opacity, ga.mask, ga.clip_path, ga.filters),
     h |-> Group(<<"p5">>, ha.opacity, ha.mask, ha.clip_path, ha.filters),
     e |-> PlainGroup(<<>>),
     p1 |-> Path("red"), p2 |-> Path("green"), p3 |-> Path("blue"),
     p4 |-> Path("black"), p5 |-> Path("gray")]

(* The size of the document: usvg::Size, whose sides are positive. *)
Sizes == { [w |-> 4, h |-> 2] }

Trees ==
    { [size |-> sz,
       view_box |-> [x |-> 0, y |-> 0, w |-> sz.w, h |-> sz.h],
       root |-> "r",
       nodes |-> SceneNodes(ga, ha)] :
        sz \in Sizes, ga \in GroupAttrs,
        ha \in { a \in GroupAttrs : a.mask = None /\ ~a.clip_path /\ a.filters = <<>> } }

(* The nodes the node entry points are called on. *)
EntryNodes == {"g", "e", "p3"}

(* Options: fit_to and background. *)
Original == [kind |-> "Original"]
Width(w) == [kind |-> "Width", w |-> w]

Opts ==
    { [fit_to |-> Original, background |-> None],
      [fit_to |-> Original, background |-> Some("white")],
      [fit_to |-> Width(0), background |-> None] }

(* RenderState *)
Ok == "Ok"
Fatal == "Fatal"

RECURSIVE Leaves(_, _)
(* The paths of the subtree of node n. *)
Leaves(nodes, n) ==
    IF nodes[n].kind = "Path" THEN {n}
    ELSE UNION { Leaves(nodes, nodes[n].children[i]) :
                    i \in 1..Len(nodes[n].children) }

(* NodeExt::calculate_bbox: None for a node of zero size. *)
calculate_bbox(n) ==
    IF Leaves(tree.nodes, n) = {} THEN None
    ELSE Some([x |-> 1, y |-> 1, w |-> 2, h |-> 2])

(* Size::to_screen_size *)
to_screen_size(size) == [w |-> size.w, h |-> size.h]

(* ScreenSize::new: None unless both sides are positive. *)
ScreenSizeNew(w, h) ==
    IF w > 0 /\ h > 0 THEN Some([w |-> w, h |-> h]) ELSE None

(* The fit policy applied to the size: the pixel size of the image. *)
fit_to(size, fit) ==
    CASE fit.kind = "Original" -> ScreenSizeNew(size.w, size.h)
      [] fit.kind = "Width" ->
            ScreenSizeNew(fit.w, (fit.w * size.h + size.w - 1) \div size.w)

(* render::create_root_image: None, or the surface, filled with the          *)
(* background if there is one, and its size.                                  *)
create_root_image(size, opt) ==
    LET img_size == fit_to(size, opt.fit_to)
    IN  IF img_size = None THEN None
        ELSE Some([img |-> IF opt.background = None THEN <<>>
                           ELSE <<[op |-> "fill", color |-> opt.background[1]]>>,
                   img_size |-> img_size[1]])

(* The frame of one invocation of the traversal on a node. *)
RFrame(n) == [node |-> n, pc |-> "enter", idx |-> 1, todo |-> <<>>]

RTop == rstack[Len(rstack)]

RNode == tree.nodes[RTop.node]

RPop == SubSeq(rstack, 1, Len(rstack) - 1)

RSetTop(f) == rstack' = [rstack EXCEPT ![Len(rstack)] = f]

Traversing == rpc = "running" /\ rstack # <<>>

(* Mutant of NewRenderState: the state of the call before is used again. *)
KeptRenderState == IF rstate = <<>> THEN Some(Ok) ELSE rstate

(* lib.rs 151: the state a top-level call starts with *)
NewRenderState == Some(Ok)

(* lib.rs 144-152 *)
render_node_to_canvas(fn, node, opt, view_box, img_size, img, warnings) ==
    /\ rcall' = Some([fn |-> fn, node |-> node, opt |-> opt,
                      view_box |-> Some(view_box), img_size |-> Some(img_size)])
    /\ rpc' = "running"
    /\ rstate' = NewRenderState
    /\ rcreated' = 1
    /\ rprev' = rstate
    /\ rstack' = <<RFrame(node)>>
    /\ layers' = <<>>
    /\ canvas' = img
    /\ result' = <<>>
    /\ rlog' = warnings
    /\ UNCHANGED tree

(* lib.rs 134-141 *)
render_to_canvas(fn, opt, img_size, img) ==
    render_node_to_canvas(fn, tree.root, opt, tree.view_box, img_size, img, <<>>)

(* An image entry point returns v before the traversal starts, having       *)
(* logged the warnings.                                                      *)
ReturnEarly(fn, node, opt, v, warnings) ==
    /\ rcall' = Some([fn |-> fn, node |-> node, opt |-> opt,
                      view_box |-> None, img_size |-> None])
    /\ rpc' = "idle"
    /\ rcreated' = 0
    /\ result' = Some(v)
    /\ rstack' = <<>>
    /\ layers' = <<>>
    /\ canvas' = <<>>
    /\ rlog' = warnings
    /\ UNCHANGED <<tree, rprev, rstate>>

(* Mutant of RenderToImage: the traversal is started on a surface of size   *)
(* zero when the root image could not be created.                            *)
RenderToImageUnchecked(opt) ==
    /\ rpc = "idle"
    /\ LET root == create_root_image(to_screen_size(tree.size), opt)
       IN  IF root = None
           THEN render_to_canvas("render_to_image", opt, [w |-> 0, h |-> 0], <<>>)
           ELSE render_to_canvas("render_to_image", opt,
                                 root[1].img_size, root[1].img)
    /\ UNCHANGED mvars

(* lib.rs 101-106 *)
RenderToImage(opt) ==
    /\ rpc = "idle"
    /\ LET root == create_root_image(to_screen_size(tree.size), opt)
       IN  IF root = None
           THEN ReturnEarly("render_to_image", tree.root, opt, None, <<>>)
           ELSE render_to_canvas("render_to_image", opt,
                                 root[1].img_size, root[1].img)
    /\ UNCHANGED mvars

(* Mutant of RenderNodeToImage: the bounding box of the node is not looked  *)
(* at; the image has the size and the view box of the document.              *)
RenderNodeToImageWholeTree(node, opt) ==
    /\ rpc = "idle"
    /\ LET root == create_root_image(to_screen_size(tree.size), opt)
       IN  IF root = None
           THEN ReturnEarly("render_node_to_image", node, opt, None, <<>>)
           ELSE render_node_to_canvas("render_node_to_image", node, opt,
                                      tree.view_box, root[1].img_size,
                                      root[1].img, <<>>)
    /\ UNCHANGED mvars

(* lib.rs 118: "Node '{}' has zero size." *)
ZeroSize(id) == [level |-> "warn", msg |-> "zero size", id |-> id]

(* lib.rs 111-129 *)
RenderNodeToImage(node, opt) ==
    /\ rpc = "idle"
    /\ LET node_bbox == calculate_bbox(node)
       IN  IF node_bbox = None
           THEN ReturnEarly("render_node_to_image", node, opt, None,
                            <<ZeroSize(node)>>)
           ELSE LET vbox == node_bbox[1]
                    root == create_root_image(
                                to_screen_size([w |-> vbox.w, h |-> vbox.h]), opt)
                IN  IF root = None
                    THEN ReturnEarly("render_node_to_image", node, opt, None, <<>>)
                    ELSE render_node_to_canvas("render_node_to_image", node, opt,
                                               vbox, root[1].img_size, root[1].img,
                                               <<>>)
    /\ UNCHANGED mvars

(* lib.rs 89-97: Options::default() *)
DefaultOptions == [fit_to |-> Original, background |-> None]

(* lib.rs 134-141, called by the user on a canvas of their own; the options *)
(* do not affect rendering to a canvas.                                      *)
RenderToCanvas(img_size) ==
    /\ rpc = "idle"
    /\ render_to_canvas("render_to_canvas", DefaultOptions, img_size, <<>>)
    /\ UNCHANGED mvars

(* lib.rs 144-152, called by the user on a canvas of their own *)
RenderNodeToCanvas(node, img_size) ==
    /\ rpc = "idle"
    /\ render_node_to_canvas("render_node_to_canvas", node, DefaultOptions,
                             tree.view_box, img_size, <<>>, <<>>)
    /\ UNCHANGED mvars

ImageFns == {"render_to_image", "render_node_to_image"}

(* Mutant of ReturnImage: no image is returned when the state is Fatal. *)
ReturnImageUnlessFatal ==
    /\ rpc = "running" /\ rstack = <<>>
    /\ rcall[1].fn \in ImageFns
    /\ rpc' = "idle"
    /\ result' = IF rstate = Some(Fatal) THEN Some(None) ELSE Some(Some(canvas))
    /\ UNCHANGED <<tree, rprev, rcall, rstate, rcreated, rstack, layers, canvas, rlog>>
    /\ UNCHANGED mvars

(* lib.rs 106-107, 129-130: the traversal is over, the image is returned *)
ReturnImage ==
    /\ rpc = "running" /\ rstack = <<>>
    /\ rcall[1].fn \in ImageFns
    /\ rpc' = "idle"
    /\ result' = Some(Some(canvas))
    /\ UNCHANGED <<tree, rprev, rcall, rstate, rcreated, rstack, layers, canvas, rlog>>
    /\ UNCHANGED mvars

(* lib.rs 140-141, 151-152: the traversal is over, the call returns *)
ReturnCanvas ==
    /\ rpc = "running" /\ rstack = <<>>
    /\ rcall[1].fn \notin ImageFns
    /\ rpc' = "idle"
    /\ UNCHANGED <<tree, rprev, rcall, rstate, rcreated, rstack, layers, canvas, result, rlog>>
    /\ UNCHANGED mvars

-----------------------------------------------------------------------------
(* The traversal: render::render_node_to_canvas and what it calls.           *)

(* Mutant of isolate: a clip path alone does not isolate the group. *)
isolateWithoutClip(g) ==
    \/ g.opacity < 100
    \/ g.mask # None
    \/ g.filters # <<>>

(* Whether a group needs an offscreen layer. *)
isolate(g) ==
    \/ g.opacity < 100
    \/ g.mask # None
    \/ g.clip_path
    \/ g.filters # <<>>

(* Mutant of Effects: the mask is applied before the clip path. *)
EffectsMaskBeforeClip(g) ==
    [i \in 1..Len(g.filters) |-> [stage |-> "filter", id |-> g.filters[i]]]
    \o (IF g.mask = None THEN <<>>
        ELSE [i \in 1..Len(g.mask) |-> [stage |-> "mask", id |-> g.mask[i]]])
    \o (IF g.clip_path THEN <<[stage |-> "clip"]>> ELSE <<>>)
    \o <<[stage |-> "opacity", value |-> g.opacity]>>

(* The effects of an isolated group, in the order they are applied. *)
Effects(g) ==
    [i \in 1..Len(g.filters) |-> [stage |-> "filter", id |-> g.filters[i]]]
    \o (IF g.clip_path THEN <<[stage |-> "clip"]>> ELSE <<>>)
    \o (IF g.mask = None THEN <<>>
        ELSE [i \in 1..Len(g.mask) |-> [stage |-> "mask", id |-> g.mask[i]]])
    \o <<[stage |-> "opacity", value |-> g.opacity]>>

(* A layer just allocated by the frame on top of the recursion: transparent. *)
NewLayer(kind) ==
    [owner |-> Len(rstack), group |-> RTop.node, kind |-> kind,
     content |-> <<>>, effects |-> <<>>]

TopLayer == layers[Len(layers)]

PopLayer(ls) == SubSeq(ls, 1, Len(ls) - 1)

(* A draw call on the current target: the newest layer, or the canvas. *)
DrawOn(ls, item) ==
    IF ls = <<>>
    THEN /\ canvas' = Append(canvas, item)
         /\ layers' = ls
    ELSE /\ layers' = [ls EXCEPT ![Len(ls)].content = Append(@, item)]
         /\ UNCHANGED canvas

(* An effect applied to the newest layer in place. *)
Affect(effect) ==
    layers' = [layers EXCEPT ![Len(layers)].effects = Append(@, effect)]

InEffects(stage) ==
    /\ Traversing /\ RTop.pc = "effects"
    /\ RTop.todo # <<>>
    /\ Head(RTop.todo).stage = stage

NextEffect == RSetTop([RTop EXCEPT !.todo = Tail(@)])

(* Mutant of EnterFatal: the state is not checked and a leaf is drawn. *)
EnterFatalIgnored ==
    /\ Traversing /\ RTop.pc = "enter"
    /\ rstate = Some(Fatal)
    /\ IF tree.nodes[RTop.node].kind = "Path"
       THEN DrawOn(layers, [op |-> "draw", node |-> RTop.node])
       ELSE UNCHANGED <<layers, canvas>>
    /\ rstack' = RPop
    /\ UNCHANGED <<tree, rprev, rcall, rpc, rstate, rcreated, result, rlog>>
    /\ UNCHANGED mvars

(* A node is entered while the state is Fatal: nothing is drawn. *)
EnterFatal ==
    /\ Traversing /\ RTop.pc = "enter"
    /\ rstate = Some(Fatal)
    /\ rstack' = RPop
    /\ UNCHANGED <<tree, rprev, rcall, rpc, rstate, rcreated, layers, canvas, result, rlog>>
    /\ UNCHANGED mvars

(* A leaf is drawn into the current target. *)
DrawLeaf ==
    /\ Traversing /\ RTop.pc = "enter"
    /\ rstate = Some(Ok)
    /\ RNode.kind = "Path"
    /\ DrawOn(layers, [op |-> "draw", node |-> RTop.node])
    /\ rstack' = RPop
    /\ UNCHANGED <<tree, rprev, rcall, rpc, rstate, rcreated, result, rlog>>
    /\ UNCHANGED mvars

(* A group that needs no isolation: its children go to the current target. *)
EnterGroup ==
    /\ Traversing /\ RTop.pc = "enter"
    /\ rstate = Some(Ok)
    /\ RNode.kind = "Group" /\ ~isolate(RNode)
    /\ RSetTop([RTop EXCEPT !.pc = "children"])
    /\ UNCHANGED <<tree, rprev, rcall, rpc, rstate, rcreated, layers, canvas, result, rlog>>
    /\ UNCHANGED mvars

(* A group that needs isolation: a layer is allocated for its children. *)
AllocLayer ==
    /\ Traversing /\ RTop.pc = "enter"
    /\ rstate = Some(Ok)
    /\ RNode.kind = "Group" /\ isolate(RNode)
    /\ layers' = Append(layers, NewLayer("group"))
    /\ RSetTop([RTop EXCEPT !.pc = "children"])
    /\ UNCHANGED <<tree, rprev, rcall, rpc, rstate, rcreated, canvas, result, rlog>>
    /\ UNCHANGED mvars

(* The layer of an isolated group cannot be allocated: a fatal failure. *)
AllocLayerFails ==
    /\ Traversing /\ RTop.pc = "enter"
    /\ rstate = Some(Ok)
    /\ RNode.kind = "Group" /\ isolate(RNode)
    /\ rstate' = Some(Fatal)
    /\ rstack' = RPop
    /\ UNCHANGED <<tree, rprev, rcall, rpc, rcreated, layers, canvas, result, rlog>>
    /\ UNCHANGED mvars

(* Mutant of RenderChild: the children are taken from the last to the      *)
(* first.                                                                    *)
RenderChildReversed ==
    /\ Traversing /\ RTop.pc = "children"
    /\ RTop.idx <= Len(tree.nodes[RTop.node].children)
    /\ LET children == tree.nodes[RTop.node].children
       IN  rstack' = [rstack EXCEPT ![Len(rstack)].idx = @ + 1]
                     \o <<RFrame(children[Len(children) - RTop.idx + 1])>>
    /\ UNCHANGED <<tree, rprev, rcall, rpc, rstate, rcreated, layers, canvas, result, rlog>>
    /\ UNCHANGED mvars

(* The next child of a group, in document order. *)
RenderChild ==
    /\ Traversing /\ RTop.pc = "children"
    /\ RTop.idx <= Len(RNode.children)
    /\ rstack' = [rstack EXCEPT ![Len(rstack)].idx = @ + 1]
                 \o <<RFrame(RNode.children[RTop.idx])>>
    /\ UNCHANGED <<tree, rprev, rcall, rpc, rstate, rcreated, layers, canvas, result, rlog>>
    /\ UNCHANGED mvars

(* The children of a group without isolation are done. *)
GroupDone ==
    /\ Traversing /\ RTop.pc = "children"
    /\ RTop.idx > Len(RNode.children)
    /\ ~isolate(RNode)
    /\ rstack' = RPop
    /\ UNCHANGED <<tree, rprev, rcall, rpc, rstate, rcreated, layers, canvas, result, rlog>>
    /\ UNCHANGED mvars

(* The children of an isolated group are done: its effects are next. *)
StartEffects ==
    /\ Traversing /\ RTop.pc = "children"
    /\ RTop.idx > Len(RNode.children)
    /\ isolate(RNode)
    /\ rstate = Some(Ok)
    /\ RSetTop([RTop EXCEPT !.pc = "effects", !.todo = Effects(RNode)])
    /\ UNCHANGED <<tree, rprev, rcall, rpc, rstate, rcreated, layers, canvas, result, rlog>>
    /\ UNCHANGED mvars

(* Mutant of AbortGroup: the invocation returns and keeps its layer. *)
AbortGroupLeaks ==
    /\ Traversing /\ RTop.pc = "children"
    /\ RTop.idx > Len(tree.nodes[RTop.node].children)
    /\ isolate(tree.nodes[RTop.node])
    /\ rstate = Some(Fatal)
    /\ rstack' = RPop
    /\ UNCHANGED <<tree, rprev, rcall, rpc, rstate, rcreated, layers, canvas, result, rlog>>
    /\ UNCHANGED mvars

(* The state is Fatal when the children of an isolated group are done: the  *)
(* layer is released, nothing is applied or composited.                      *)
AbortGroup ==
    /\ Traversing /\ RTop.pc = "children"
    /\ RTop.idx > Len(RNode.children)
    /\ isolate(RNode)
    /\ rstate = Some(Fatal)
    /\ layers' = PopLayer(layers)
    /\ rstack' = RPop
    /\ UNCHANGED <<tree, rprev, rcall, rpc, rstate, rcreated, canvas, result, rlog>>
    /\ UNCHANGED mvars

(* A filter is applied, or fails softly and is skipped. *)
ApplyFilter ==
    /\ InEffects("filter")
    /\ \/ Affect(Head(RTop.todo))
       \/ UNCHANGED layers
    /\ NextEffect
    /\ UNCHANGED <<tree, rprev, rcall, rpc, rstate, rcreated, canvas, result, rlog>>
    /\ UNCHANGED mvars

(* The filter signals a fatal resource condition. *)
FilterFatal ==
    /\ InEffects("filter")
    /\ rstate' = Some(Fatal)
    /\ layers' = PopLayer(layers)
    /\ rstack' = RPop
    /\ UNCHANGED <<tree, rprev, rcall, rpc, rcreated, canvas, result, rlog>>
    /\ UNCHANGED mvars

(* The clip path is intersected with the layer's alpha. *)
ApplyClip ==
    /\ InEffects("clip")
    /\ Affect(Head(RTop.todo))
    /\ NextEffect
    /\ UNCHANGED <<tree, rprev, rcall, rpc, rstate, rcreated, canvas, result, rlog>>
    /\ UNCHANGED mvars

(* A layer of its own for the content of the mask. *)
AllocMaskLayer ==
    /\ InEffects("mask")
    /\ TopLayer.kind = "group"
    /\ layers' = Append(layers, NewLayer("mask"))
    /\ UNCHANGED <<tree, rprev, rcall, rpc, rstate, rcreated, rstack, canvas, result, rlog>>
    /\ UNCHANGED mvars

(* The layer of the mask cannot be allocated: a fatal failure. *)
MaskLayerFails ==
    /\ InEffects("mask")
    /\ TopLayer.kind = "group"
    /\ rstate' = Some(Fatal)
    /\ layers' = PopLayer(layers)
    /\ rstack' = RPop
    /\ UNCHANGED <<tree, rprev, rcall, rpc, rcreated, canvas, result, rlog>>
    /\ UNCHANGED mvars

(* The content of the mask is rendered into its layer, the group's layer is *)
(* multiplied by its luminance, and the mask's layer is released.            *)
ApplyMask ==
    /\ InEffects("mask")
    /\ TopLayer.kind = "mask"
    /\ layers' = [PopLayer(layers) EXCEPT ![Len(layers) - 1].effects =
                    Append(@, Head(RTop.todo))]
    /\ NextEffect
    /\ UNCHANGED <<tree, rprev, rcall, rpc, rstate, rcreated, canvas, result, rlog>>
    /\ UNCHANGED mvars

(* The layer's alpha is scaled by the group's opacity. *)
ApplyOpacity ==
    /\ InEffects("opacity")
    /\ Affect(Head(RTop.todo))
    /\ NextEffect
    /\ UNCHANGED <<tree, rprev, rcall, rpc, rstate, rcreated, canvas, result, rlog>>
    /\ UNCHANGED mvars

(* The finished layer is composited onto the target and released. *)
Composite ==
    /\ Traversing /\ RTop.pc = "effects"
    /\ RTop.todo = <<>>
    /\ DrawOn(PopLayer(layers),
              [op |-> "composite", node |-> RTop.node,
               content |-> TopLayer.content, effects |-> TopLayer.effects])
    /\ rstack' = RPop
    /\ UNCHANGED <<tree, rprev, rcall, rpc, rstate, rcreated, result, rlog>>
    /\ UNCHANGED mvars

(* The caller's canvas has some size. *)
CanvasSize == [w |-> 4, h |-> 2]

RenderInit ==
    /\ doc = [e \in Elems |->
                [tag |-> "mask", attrs |-> NoAttrs, link |-> None,
                 children |-> <<"shape">>]]
    /\ masks = <<>>
    /\ heap = <<>>
    /\ stack = <<>>
    /\ ret = <<>>
    /\ call = <<>>
    /\ returned = {}
    /\ hits = {}
    /\ crashed = FALSE
    /\ log = <<>>
    /\ tree \in Trees
    /\ rcall = <<>>
    /\ rpc = "idle"
    /\ rstate = <<>>
    /\ rcreated = 0
    /\ rprev = <<>>
    /\ rstack = <<>>
    /\ layers = <<>>
    /\ canvas = <<>>
    /\ result = <<>>
    /\ rlog = <<>>

RenderNext ==
    \/ \E opt \in Opts : RenderToImage(opt)
    \/ \E node \in EntryNodes, opt \in Opts : RenderNodeToImage(node, opt)
    \/ RenderToCanvas(CanvasSize)
    \/ \E node \in EntryNodes : RenderNodeToCanvas(node, CanvasSize)
    \/ ReturnImage
    \/ ReturnCanvas
    \/ EnterFatal
    \/ DrawLeaf
    \/ EnterGroup
    \/ AllocLayer
    \/ AllocLayerFails
    \/ RenderChild
    \/ GroupDone
    \/ StartEffects
    \/ AbortGroup
    \/ ApplyFilter
    \/ FilterFatal
    \/ ApplyClip
    \/ AllocMaskLayer
    \/ MaskLayerFails
    \/ ApplyMask
    \/ ApplyOpacity
    \/ Composite

RenderSpec == RenderInit /\ [][RenderNext]_vars

Init ==
    /\ doc \in [Elems -> Elements]
    /\ masks = <<>>
    /\ heap = <<>>
    /\ stack = <<>>
    /\ ret = <<>>
    /\ call = <<>>
    /\ returned = {}
    /\ hits = {}
    /\ crashed = FALSE
    /\ log = <<>>
    /\ tree = [size |-> [w |-> 4, h |-> 2],
               view_box |-> [x |-> 0, y |-> 0, w |-> 4, h |-> 2],
               root |-> "r",
               nodes |-> SceneNodes([opacity |-> 100, mask |-> None,
                                     clip_path |-> FALSE, filters |-> <<>>],
                                    [opacity |-> 100, mask |-> None,
                                     clip_path |-> FALSE, filters |-> <<>>])]
    /\ rcall = <<>>
    /\ rpc = "idle"
    /\ rstate = <<>>
    /\ rcreated = 0
    /\ rprev = <<>>
    /\ rstack = <<>>
    /\ layers = <<>>
    /\ canvas = <<>>
    /\ result = <<>>
    /\ rlog = <<>>

Next ==
    \/ \E node \in Elems, state \in States : Call(node, state)
    \/ NotMaskElement
    \/ CacheHit
    \/ InvalidRect
    \/ ResolveLink
    \/ StackOverflow
    \/ NoLink
    \/ LinkInvalid
    \/ LinkValid
    \/ StoreMask
    \/ EmptyMask

Spec == Init /\ [][Next]_vars

(* The attributes of a mask whose rectangle is looked at: every one of x,   *)
(* y, width and height absent or specified, under each maskUnits.            *)
RectAttrs ==
    [maskUnits : {None, Some(ObjectBoundingBox), Some(UserSpaceOnUse)},
     maskContentUnits : {None},
     x : {None, Some(Length(5, "none"))},
     y : {None, Some(Length(20, "percent"))},
     width : {None, Some(Length(0, "none")), Some(Length(50, "percent"))},
     height : {None, Some(Length(2, "none"))}]

(* A document for the rectangle of a mask: `a` is a mask with any of the    *)
(* attributes above; `b` is an element that is no mask, a mask with only x  *)
(* specified that links to `a`, or a mask that links to itself.              *)
RectInit ==
    /\ \E attrs \in RectAttrs, children \in {<<"shape">>, <<"empty">>},
          b \in { [tag |-> "g", attrs |-> NoAttrs, link |-> None,
                   children |-> <<>>],
                  [tag |-> "mask",
                   attrs |-> [NoAttrs EXCEPT !.x = Some(Length(5, "none"))],
                   link |-> Some("a"), children |-> <<"shape">>],
                  [tag |-> "mask", attrs |-> NoAttrs, link |-> Some("b"),
                   children |-> <<"shape">>] } :
            doc = [e \in Elems |->
                    IF e = "a"
                    THEN [tag |-> "mask", attrs |-> attrs, link |-> None,
                          children |-> children]
                    ELSE b]
    /\ masks = <<>>
    /\ heap = <<>>
    /\ stack = <<>>
    /\ ret = <<>>
    /\ call = <<>>
    /\ returned = {}
    /\ hits = {}
    /\ crashed = FALSE
    /\ log = <<>>
    /\ tree \in { t \in Trees : \A n \in DOMAIN t.nodes :
                                t.nodes[n].kind = "Group" => ~isolate(t.nodes[n]) }
    /\ rcall = <<>>
    /\ rpc = "idle"
    /\ rstate = <<>>
    /\ rcreated = 0
    /\ rprev = <<>>
    /\ rstack = <<>>
    /\ layers = <<>>
    /\ canvas = <<>>
    /\ result = <<>>
    /\ rlog = <<>>

RectSpec == RectInit /\ [][Next]_vars

-----------------------------------------------------------------------------
(* Properties of mask::convert, checked under Spec.                          *)

(* The top-level call on element e with any state has returned v. *)
Finished(e, v) ==
    /\ ~crashed /\ stack = <<>>
    /\ call # <<>> /\ call[1].node = e
    /\ ret = Some(v)

(* Element e is a mask element whose rectangle is valid under every state.  *)
ValidRect(e) ==
    /\ doc[e].tag = "mask"
    /\ \A st \in States : MaskRect(e, st) # None

(* Element e is a mask element with at least one child that converts. *)
HasContent(e) == \E i \in 1..Len(doc[e].children) : doc[e].children[i] = "shape"

(* C1: once convert(D) has returned a mask, every convert(D) returns that   *)
(* same instance, the one cache.masks holds under D's id, and no second     *)
(* Mask is ever built for D: a later call is a cache hit that reads and     *)
(* converts nothing.                                                         *)
C1_SameInstance ==
    \A p \in returned :
        /\ p[1] \in DOMAIN masks
        /\ masks[p[1]] = p[2]
        /\ \A i \in 1..Len(heap) : heap[i].id = p[1] => i = p[2]

(* A top-level call on an element found in the cache has returned its Mask. *)
C1_Witness ==
    \E e \in hits :
        /\ e \in DOMAIN masks
        /\ Finished(e, Some(masks[e]))
        /\ <<e, masks[e]>> \in returned

(* C2: convert terminates on a cyclic link chain and returns None, because  *)
(* a mask that is being resolved is invalid on re-entry: the call stack is   *)
(* never exhausted, and an invocation on an element that an outer           *)
(* invocation is resolving never gets past its entry.                        *)
C2_CycleResolvesAbsent ==
    /\ ~crashed
    /\ \A i, j \in 1..Len(stack) :
            (i < j /\ stack[i].node = stack[j].node) => stack[j].pc = "start"

(* C3: a mask whose converted content has no children resolves to None: no  *)
(* Mask with a childless root is ever allocated, cached or returned.         *)
C3_EmptyIsAbsent ==
    /\ \A i \in 1..Len(heap) : Len(heap[i].root) > 0
    /\ \A e \in Elems :
            ~HasContent(e) =>
                /\ e \notin DOMAIN masks
                /\ \A p \in returned : p[1] # e
                /\ \A v \in {Some(i) : i \in 1..Len(heap)} : ~Finished(e, v)

(* A call on a mask with a valid rectangle, no link and children none of    *)
(* which converts has returned None.                                         *)
C3_Witness ==
    \E e \in Elems :
        /\ ValidRect(e) /\ doc[e].link = None
        /\ doc[e].children # <<>> /\ ~HasContent(e)
        /\ Finished(e, None)

(* C4: a linked mask is resolved before the content of the outer mask is    *)
(* converted, and when it resolves to None so does the outer mask: every     *)
(* Mask of an element with a link has its `mask` set, to the instance        *)
(* cached for the linked element.                                            *)
C4_LinkResolvedFirst ==
    /\ \A i \in 1..Len(heap) :
            LET link == doc[heap[i].id].link
            IN  link # None =>
                    /\ heap[i].mask # None
                    /\ link[1] \in DOMAIN masks
                    /\ heap[i].mask = Some(masks[link[1]])
                    /\ heap[i].mask[1] < i
    /\ \A k \in 1..Len(stack) :
            LET link == doc[stack[k].node].link
            IN  (stack[k].pc = "children" /\ link # None) =>
                    /\ link[1] \in DOMAIN masks
                    /\ stack[k].mask = Some(masks[link[1]])

(* A call on a mask with a valid rectangle and content, whose link is to an *)
(* element that is no mask, has returned None.                               *)
C4_Witness ==
    \E e \in Elems :
        /\ ValidRect(e) /\ HasContent(e)
        /\ doc[e].link # None
        /\ doc[doc[e].link[1]].tag # "mask"
        /\ Finished(e, None)
        /\ e \notin DOMAIN masks

RECURSIVE ChainEnds(_, _)
(* Following `mask` from instance i reaches None without meeting an         *)
(* instance of `seen` or one met on the way.                                 *)
ChainEnds(i, seen) ==
    IF heap[i].mask = None THEN TRUE
    ELSE LET j == heap[i].mask[1]
         IN  /\ j \in 1..Len(heap)
             /\ j \notin seen \cup {i}
             /\ ChainEnds(j, seen \cup {i})

(* C5: no Mask references itself, directly or transitively, through its     *)
(* `mask` field.                                                             *)
C5_ChainAcyclic == \A i \in 1..Len(heap) : ChainEnds(i, {})

(* A Mask with a linked Mask has been built and cached. *)
C5_Witness ==
    \E e \in DOMAIN masks :
        /\ heap[masks[e]].mask # None
        /\ heap[heap[masks[e]].mask[1]].id # e

-----------------------------------------------------------------------------
(* Properties of the render entry points and the traversal, checked under   *)
(* RenderSpec.                                                               *)

IsPrefix(a, b) == Len(a) <= Len(b) /\ SubSeq(b, 1, Len(a)) = a

(* A top-level render call has returned. *)
Returned == rpc = "idle" /\ rcall # <<>>

(* C6 as stated: every top-level render call creates exactly one Render     *)
(* State. It fails for an image entry point that returns None before the    *)
(* traversal: that call creates none.                                        *)
C6_OnePerCall == Returned => rcreated = 1

(* C6: a top-level render call that reaches the traversal creates exactly   *)
(* one Render State, initialised to Ok whatever the call before left; one   *)
(* that returns before the traversal creates none; within a call no second  *)
(* one is created and a state that is Fatal stays Fatal.                     *)
C6_OneWay ==
    [][ /\ (rpc = "idle" /\ rpc' = "running") =>
                (rstate' = Some(Ok) /\ rcreated' = 1)
        /\ (rpc = "idle" /\ rpc' = "idle") => (rcreated' = 0 /\ rstate' = rstate)
        /\ rpc = "running" => rcreated' = rcreated
        /\ (rpc = "running" /\ rstate = Some(Fatal)) => rstate' = Some(Fatal)
      ]_vars

(* A call that started after a call that ended Fatal has drawn on its      *)
(* canvas and has then become Fatal itself.                                  *)
C6_Witness ==
    /\ rpc = "running" /\ rstack # <<>>
    /\ rprev = Some(Fatal)
    /\ rstate = Some(Fatal)
    /\ canvas # <<>>

(* C7: once the state is Fatal no draw call is issued, on the canvas or on  *)
(* a layer, for any node entered afterwards; the step that raises Fatal     *)
(* draws nothing; and what was drawn on the canvas before stays there.       *)
C7_NoDrawAfterFatal ==
    [][ /\ rpc = "running" => IsPrefix(canvas, canvas')
        /\ (rpc = "running" /\ (rstate = Some(Fatal) \/ rstate' = Some(Fatal))) =>
                /\ canvas' = canvas
                /\ Len(layers') <= Len(layers)
                /\ \A k \in 1..Len(layers') : layers'[k] = layers[k]
      ]_vars

(* The whole tree was rendered onto a canvas, the first child of the root   *)
(* was drawn, the second raised Fatal, and nothing else was drawn.           *)
C7_Witness ==
    /\ Returned /\ rcall[1].fn = "render_to_canvas"
    /\ rstate = Some(Fatal)
    /\ canvas = <<[op |-> "draw", node |-> "p1"]>>

(* Group i of the recursion holds a layer for its children. *)
OwnsLayer(i) ==
    \E k \in 1..Len(layers) : layers[k].owner = i /\ layers[k].kind = "group"

(* The conditions under which a group is rendered through a layer. *)
NeedsLayer(g) ==
    g.opacity < 100 \/ g.mask # None \/ g.clip_path \/ g.filters # <<>>

C9_ImageReturned ==
    /\ (Returned /\ rcall[1].fn \in ImageFns /\ rcall[1].img_size # None) =>
            result = Some(Some(canvas))
    /\ rpc = "running" => (result = <<>> /\ ENABLED RenderNext)

(* An image entry point has returned a partly drawn image after a Fatal. *)
C9_Witness ==
    /\ Returned /\ rcall[1].fn \in ImageFns
    /\ rstate = Some(Fatal)
    /\ result = Some(Some(canvas))
    /\ \E k \in 1..Len(canvas) : canvas[k].op = "draw"

(* C10: a group that has been entered holds a layer if and only if its      *)
(* opacity is below 1 or it has a mask, a clip path or a filter.             *)
C10_IsolationIff ==
    \A i \in 1..Len(rstack) :
        LET g == tree.nodes[rstack[i].node]
        IN  (g.kind = "Group" /\ rstack[i].pc # "enter") =>
                (OwnsLayer(i) <=> NeedsLayer(g))

(* The root, which has none of the four, holds no layer while its child,    *)
(* which has only a clip path, holds one.                                    *)
C10_Witness ==
    /\ Len(rstack) >= 2
    /\ rstack[1].node = "r" /\ ~OwnsLayer(1)
    /\ rstack[2].node = "g" /\ OwnsLayer(2)
    /\ LET g == tree.nodes["g"]
       IN  g.opacity = 100 /\ g.mask = None /\ g.clip_path /\ g.filters = <<>>

(* What create_root_image returns to the image entry point of call c, whose *)
(* node has a bounding box.                                                  *)
RootImageOf(c) ==
    IF c.fn = "render_to_image"
    THEN create_root_image(to_screen_size(tree.size), c.opt)
    ELSE LET bbox == calculate_bbox(c.node)[1]
         IN  create_root_image(to_screen_size([w |-> bbox.w, h |-> bbox.h]), c.opt)

(* Call c is a call of an image entry point that gets to create_root_image. *)
WantsRootImage(c) ==
    /\ c.fn \in ImageFns
    /\ c.fn = "render_node_to_image" => calculate_bbox(c.node) # None

(* C11: when the root image cannot be created, render_to_image and          *)
(* render_node_to_image return None in the very step of the call: no        *)
(* traversal is started, no Render State is created, nothing is drawn; and  *)
(* an image entry point never renders on a surface with a side of zero.     *)
C11_NoRootImage ==
    [][ (rpc = "idle" /\ rcall' # <<>>) =>
            LET c == rcall'[1]
            IN  /\ (WantsRootImage(c) /\ RootImageOf(c) = None) =>
                        /\ rpc' = "idle"
                        /\ result' = Some(None)
                        /\ rcreated' = 0 /\ rstate' = rstate
                        /\ rstack' = <<>> /\ layers' = <<>> /\ canvas' = <<>>
                        /\ c.img_size = None
                /\ (c.fn \in ImageFns /\ c.img_size # None) =>
                        (c.img_size[1].w > 0 /\ c.img_size[1].h > 0)
      ]_vars

(* render_to_image was called with a fit policy that yields no image size,  *)
(* after a call that had drawn, and has returned None.                       *)
C11_Witness ==
    /\ Returned /\ rcall[1].fn = "render_to_image"
    /\ RootImageOf(rcall[1]) = None
    /\ rstate # <<>>
    /\ result = Some(None) /\ canvas = <<>>

(* The place of a stage in the order filter, clip path, mask, opacity. *)
Rank(e) ==
    CASE e.stage = "filter" -> 1
      [] e.stage = "clip" -> 2
      [] e.stage = "mask" -> 3
      [] e.stage = "opacity" -> 4

InOrder(es) == \A i, j \in 1..Len(es) : i < j => Rank(es[i]) <= Rank(es[j])

Stage(es, stage) == SelectSeq(es, LAMBDA e : e.stage = stage)

(* es is what group g's layer has gone through when every effect of g has   *)
(* been applied: its filters (one that fails softly is skipped), then the   *)
(* clip path, then one multiplication for each link of the mask chain from  *)
(* the group's own mask on, then the opacity.                                *)
AllApplied(es, g) ==
    /\ InOrder(es)
    /\ \A i \in 1..Len(Stage(es, "filter")) :
            \E j \in 1..Len(g.filters) : Stage(es, "filter")[i].id = g.filters[j]
    /\ Len(Stage(es, "filter")) <= Len(g.filters)
    /\ Len(Stage(es, "clip")) = IF g.clip_path THEN 1 ELSE 0
    /\ [i \in 1..Len(Stage(es, "mask")) |-> Stage(es, "mask")[i].id]
            = (IF g.mask = None THEN <<>> ELSE g.mask)
    /\ Stage(es, "opacity") = <<[stage |-> "opacity", value |-> g.opacity]>>

(* The item the step draws on the canvas or on a layer, if it draws one. *)
Drawn ==
    IF Len(canvas') > Len(canvas) THEN <<canvas'[Len(canvas')]>>
    ELSE LET ks == { k \in 1..Len(layers') :
                        /\ k <= Len(layers)
                        /\ Len(layers'[k].content) > Len(layers[k].content) }
         IN  IF ks = {} THEN <<>>
             ELSE LET k == CHOOSE k \in ks : TRUE
                  IN  <<layers'[k].content[Len(layers'[k].content)]>>

(* C12: the effects reach the layer of an isolating group in the order      *)
(* filters, clip path, mask (one multiplication per link of the chain),     *)
(* opacity, and none before the children are drawn; the layer is composited *)
(* onto its target only when all of them have been applied, as it then is,  *)
(* and the step that composites it releases it.                              *)
C12_EffectOrder ==
    [][ rpc = "running" =>
          /\ \A k \in 1..Len(layers) :
                LET f == rstack[layers[k].owner]
                    g == tree.nodes[layers[k].group]
                IN  layers[k].kind = "group" =>
                        /\ f.pc = "children" => layers[k].effects = <<>>
                        /\ f.pc = "effects" =>
                                AllApplied(layers[k].effects \o f.todo, g)
          /\ (Drawn # <<>> /\ Drawn[1].op = "composite") =>
                /\ layers # <<>> /\ TopLayer.kind = "group"
                /\ TopLayer.group = Drawn[1].node
                /\ Drawn[1].content = TopLayer.content
                /\ Drawn[1].effects = TopLayer.effects
                /\ AllApplied(TopLayer.effects, tree.nodes[TopLayer.group])
                /\ Len(layers') = Len(layers) - 1
                /\ \A k \in 1..Len(layers') : layers'[k].owner = layers[k].owner
      ]_vars

(* The layer of a group with a filter, a clip path, a chain of two masks    *)
(* and an opacity has gone through all five, has been composited onto the   *)
(* canvas and is released.                                                   *)
C12_Witness ==
    /\ Returned /\ rstate = Some(Ok) /\ layers = <<>>
    /\ \E k \in 1..Len(canvas) :
            /\ canvas[k].op = "composite" /\ canvas[k].node = "g"
            /\ canvas[k].effects =
                    << [stage |-> "filter", id |-> "f1"], [stage |-> "clip"],
                       [stage |-> "mask", id |-> "m1"],
                       [stage |-> "mask", id |-> "m2"],
                       [stage |-> "opacity", value |-> 50] >>

RECURSIVE PreOrder(_, _)
(* The nodes of the subtrees of ns in document order. *)
PreOrder(nodes, ns) ==
    IF ns = <<>> THEN <<>>
    ELSE <<Head(ns)>>
         \o (IF nodes[Head(ns)].kind = "Group"
             THEN PreOrder(nodes, nodes[Head(ns)].children) ELSE <<>>)
         \o PreOrder(nodes, Tail(ns))

(* The place of node n in the document. *)
Pos(n) ==
    LET order == PreOrder(tree.nodes, <<tree.root>>)
    IN  CHOOSE i \in 1..Len(order) : order[i] = n

RECURSIVE Pixel(_)
(* The colour of a pixel that every item drawn on a surface covers, from    *)
(* the transparent surface on: source-over blending, where an opaque source *)
(* replaces what is below it. None is transparent.                           *)
Pixel(items) ==
    IF items = <<>> THEN None
    ELSE LET below == Pixel(SubSeq(items, 1, Len(items) - 1))
             item == items[Len(items)]
         IN  CASE item.op = "fill" -> Some(item.color)
               [] item.op = "draw" -> Some(tree.nodes[item.node].fill)
               [] item.op = "composite" ->
                    IF Pixel(item.content) = None THEN below
                    ELSE Some([over |-> below, layer |-> Pixel(item.content),
                               effects |-> item.effects])

(* The surface the invocation on top of the recursion draws on. *)
Target == IF layers = <<>> THEN canvas ELSE TopLayer.content

RECURSIVE Opaque(_)
(* Node n is fully opaque: a path, or a group without isolation whose       *)
(* children are.                                                             *)
Opaque(n) ==
    LET g == tree.nodes[n]
    IN  \/ g.kind = "Path"
        \/ /\ ~NeedsLayer(g)
           /\ \A i \in 1..Len(g.children) : Opaque(g.children[i])

(* C13: what is drawn on a surface is drawn in document order, the children *)
(* of a group in the order of its child array; so when a group without      *)
(* isolation whose children are fully opaque and overlap has drawn them all, *)
(* the colour of a pixel they all cover is the colour of the last child.    *)
C13_PaintersOrder ==
    /\ \A T \in {canvas} \cup {layers[k].content : k \in 1..Len(layers)} :
            \A i, j \in 1..Len(T) :
                (i < j /\ T[i].op # "fill") => Pos(T[i].node) < Pos(T[j].node)
    /\ \A n \in DOMAIN tree.nodes :
            LET g == tree.nodes[n]
            IN  ( /\ Traversing /\ rstate = Some(Ok)
                  /\ RTop.node = n /\ RTop.pc = "children"
                  /\ g.kind = "Group" /\ ~NeedsLayer(g)
                  /\ RTop.idx > Len(g.children)
                  /\ Len(g.children) >= 3
                  /\ \A i \in 1..Len(g.children) : Opaque(g.children[i])
                  /\ tree.nodes[g.children[Len(g.children)]].kind = "Path" ) =>
                Pixel(Target) =
                    Some(tree.nodes[g.children[Len(g.children)]].fill)

(* The group g, which is not isolated, has drawn its three opaque children  *)
(* p3, h and p4 on the canvas over p1.                                       *)
C13_Witness ==
    /\ Traversing /\ rstate = Some(Ok)
    /\ RTop.node = "g" /\ RTop.pc = "children" /\ RTop.idx = 4
    /\ ~NeedsLayer(tree.nodes["g"]) /\ ~NeedsLayer(tree.nodes["h"])
    /\ \A i \in 1..Len(canvas) : canvas[i].op = "draw"
    /\ [i \in 1..Len(canvas) |-> canvas[i].node] = <<"p1", "p3", "p5", "p4">>
    /\ Pixel(canvas) = Some("black")

(* C17: render_node_to_image on a node without a bounding box logs a        *)
(* warning and returns None in the step of the call: no root image, no      *)
(* Render State, no traversal, nothing drawn. On a node with a bounding box *)
(* it logs nothing, and when it starts the traversal, on that node, the     *)
(* view box is the bounding box and the size of the image is the size of    *)
(* the bounding box under the fit policy.                                    *)
C17_NodeBBox ==
    [][ (rpc = "idle" /\ rcall' # <<>>
                      /\ rcall'[1].fn = "render_node_to_image") =>
            LET c == rcall'[1]
                bbox == calculate_bbox(c.node)
            IN  IF bbox = None
                THEN /\ rpc' = "idle"
                     /\ result' = Some(None)
                     /\ rlog' = <<ZeroSize(c.node)>>
                     /\ c.img_size = None /\ canvas' = <<>>
                     /\ rcreated' = 0 /\ rstate' = rstate
                     /\ rstack' = <<>> /\ layers' = <<>>
                ELSE /\ rlog' = <<>>
                     /\ rpc' = "running" =>
                            /\ rstack' = <<RFrame(c.node)>>
                            /\ c.view_box = bbox
                            /\ c.img_size =
                                    fit_to([w |-> bbox[1].w, h |-> bbox[1].h],
                                           c.opt.fit_to)
                            /\ result' = <<>>
      ]_vars

(* render_node_to_image was called on the group without content, after a    *)
(* call that had traversed, and has returned None with the warning.          *)
C17_Witness ==
    /\ Returned /\ rcall[1].fn = "render_node_to_image"
    /\ calculate_bbox(rcall[1].node) = None
    /\ rstate # <<>>
    /\ result = Some(None)
    /\ rlog = <<ZeroSize("e")>>

-----------------------------------------------------------------------------
(* Further properties of mask::convert, checked under Spec.                  *)

(* The width or the height of the element's rectangle is not positive. *)
Degenerate(e, state) ==
    LET units == IF doc[e].attrs.maskUnits = None THEN ObjectBoundingBox
                 ELSE doc[e].attrs.maskUnits[1]
        w == convert_length(e, "width", units, state, Length(120, "percent"))
        h == convert_length(e, "height", units, state, Length(120, "percent"))
    IN  w <= 0 \/ h <= 0

(* C15: a convert on a mask element that is not cached and whose rectangle  *)
(* is degenerate logs a warning and returns None in its next step: it does  *)
(* not call convert on the linked mask, converts no content, allocates and  *)
(* caches nothing, and raises no fatal state; so every invocation that has  *)
(* got to its link or its content has a rectangle with positive sides.      *)
C15_DegenerateRect ==
    [][ /\ ( /\ Running /\ Top.pc = "start"
              /\ doc[Top.node].tag = "mask"
              /\ Top.node \notin DOMAIN masks
              /\ Degenerate(Top.node, Top.state) ) =>
                /\ stack' = SubSeq(stack, 1, Len(stack) - 1)
                /\ ret' = Some(None)
                /\ log' = Append(log, InvalidSize(Top.node))
                /\ masks' = masks /\ heap' = heap
                /\ crashed' = crashed /\ rstate' = rstate
        /\ \A k \in 1..Len(stack) :
                stack[k].pc # "start" =>
                    /\ ~Degenerate(stack[k].node, stack[k].state)
                    /\ stack[k].rect # None
                    /\ stack[k].rect[1].width > 0 /\ stack[k].rect[1].height > 0
      ]_vars

(* A call on a mask of width 0 that has content and links to a mask that    *)
(* would resolve has returned None with one warning, the cache still empty. *)
C15_Witness ==
    \E e \in Elems :
        /\ Finished(e, None)
        /\ Degenerate(e, call[1].state)
        /\ HasContent(e)
        /\ doc[e].link # None /\ doc[e].link[1] # e
        /\ ValidRect(doc[e].link[1]) /\ HasContent(doc[e].link[1])
        /\ doc[doc[e].link[1]].link = None
        /\ log = <<InvalidSize(e)>>
        /\ masks = <<>> /\ heap = <<>>

(* C16: cache.masks only grows, and only on success: no step removes an    *)
(* entry or changes the instance of one; the only step that adds an entry   *)
(* is the return of Some(m) by the invocation on the element, which adds m  *)
(* under that element; an invocation that returns None leaves the cache as  *)
(* it is, so the entry a resolved linked mask got stays when the outer mask *)
(* fails, and the failing element is not cached and is converted again by   *)
(* the next call.                                                            *)
C16_CacheOnlyGrows ==
    [][ /\ DOMAIN masks \subseteq DOMAIN masks'
        /\ \A k \in DOMAIN masks : masks'[k] = masks[k]
        /\ masks' # masks =>
                /\ stack # <<>> /\ stack' = SubSeq(stack, 1, Len(stack) - 1)
                /\ DOMAIN masks' = DOMAIN masks \cup {Top.node}
                /\ Top.node \notin DOMAIN masks
                /\ ret' = Some(Some(masks'[Top.node]))
        /\ (Len(stack') < Len(stack) /\ ret' = Some(None)) =>
                /\ masks' = masks
                /\ Top.node \notin DOMAIN masks'
      ]_vars

(* A call on a mask without content has returned None; its linked mask was *)
(* resolved, by a miss, and is cached; the outer one is not.                 *)
C16_Witness ==
    \E e \in Elems :
        /\ Finished(e, None)
        /\ ValidRect(e) /\ ~HasContent(e)
        /\ doc[e].link # None
        /\ DOMAIN masks = {doc[e].link[1]}
        /\ hits = {}
        /\ e \notin DOMAIN masks

(* C18: every entry (k, m) of cache.masks has m.id = k and a root with at   *)
(* least one child, and when m.mask is present it is the instance the cache *)
(* holds under that Mask's own id, allocated and inserted before m.          *)
C18_CacheWellFormed ==
    \A k \in DOMAIN masks :
        LET m == heap[masks[k]]
        IN  /\ m.id = k
            /\ Len(m.root) >= 1
            /\ m.mask # None =>
                    LET l == m.mask[1]
                    IN  /\ l \in 1..Len(heap)
                        /\ heap[l].id \in DOMAIN masks
                        /\ masks[heap[l].id] = l
                        /\ l < masks[k]

(* Both elements are cached, one with the other as its linked mask, and the *)
(* call on the outer one has returned it.                                    *)
C18_Witness ==
    /\ DOMAIN masks = Elems
    /\ \E e \in Elems :
            /\ Finished(e, Some(masks[e]))
            /\ heap[masks[e]].mask # None
            /\ heap[masks[e]].mask[1] # masks[e]
            /\ Len(heap) = 2

(* C19: a convert on an element that is in the cache returns the cached     *)
(* instance whatever its `state` argument is, and computes, allocates and   *)
(* logs nothing; a Mask gets its units, rectangle, chain and content when   *)
(* it is allocated, the rectangle from the state of the call that allocates *)
(* it, and is never changed afterwards.                                      *)
C19_HitIgnoresState ==
    [][ /\ ( /\ Running /\ Top.pc = "start"
              /\ doc[Top.node].tag = "mask"
              /\ Top.node \in DOMAIN masks ) =>
                /\ ret' = Some(Some(masks[Top.node]))
                /\ stack' = SubSeq(stack, 1, Len(stack) - 1)
                /\ heap' = heap /\ masks' = masks /\ log' = log
        /\ Len(heap') >= Len(heap)
        /\ \A i \in 1..Len(heap) : heap'[i] = heap[i]
        /\ Len(heap') > Len(heap) =>
                /\ Len(heap') = Len(heap) + 1
                /\ stack # <<>>
                /\ heap'[Len(heap')].id = Top.node
                /\ Some(heap'[Len(heap')].rect) = MaskRect(Top.node, Top.state)
                /\ heap'[Len(heap')].mask = Top.mask
      ]_vars

(* A call on a cached mask has returned the cached instance, whose          *)
(* rectangle is the one of the other state and not the one this call's      *)
(* state gives.                                                              *)
C19_Witness ==
    \E e \in hits :
        /\ e \in DOMAIN masks
        /\ Finished(e, Some(masks[e]))
        /\ Some(heap[masks[e]].rect) # MaskRect(e, call[1].state)
        /\ \E st \in States : Some(heap[masks[e]].rect) = MaskRect(e, st)

(* C20: a convert on an element that is not a `mask` element returns None   *)
(* in its next step, without a cache lookup, an allocation or a change of   *)
(* the cache; no such element is ever cached or returned as a Mask; and a   *)
(* mask that links to one never gets to its content and yields no Mask.     *)
C20_NotAMask ==
    [][ /\ ( /\ Running /\ Top.pc = "start"
              /\ doc[Top.node].tag # "mask" ) =>
                /\ ret' = Some(None)
                /\ stack' = SubSeq(stack, 1, Len(stack) - 1)
                /\ hits' = hits /\ masks' = masks /\ heap' = heap
                /\ returned' = returned
        /\ \A k \in DOMAIN masks : doc[k].tag = "mask"
        /\ \A p \in returned : doc[p[1]].tag = "mask"
        /\ \A e \in hits : doc[e].tag = "mask"
        /\ \A e \in Elems :
                (doc[e].link # None /\ doc[doc[e].link[1]].tag # "mask") =>
                    /\ e \notin DOMAIN masks
                    /\ \A i \in 1..Len(heap) : heap[i].id # e
                    /\ \A k \in 1..Len(stack) :
                            stack[k].node = e => stack[k].pc # "children"
      ]_vars

(* While the other element is cached, a call on an element that is no mask, *)
(* though it has the content and the attributes a mask could have, has      *)
(* returned None.                                                             *)
C20_Witness ==
    \E e \in Elems :
        /\ doc[e].tag # "mask"
        /\ HasContent(e) /\ doc[e].attrs = NoAttrs /\ doc[e].link = None
        /\ Finished(e, None)
        /\ masks # <<>>
        /\ log = <<>>

-----------------------------------------------------------------------------
(* Properties of the rectangle of a mask, checked under RectSpec.           *)

(* A specified length under objectBoundingBox units, in hundredths: a       *)
(* percentage of the bounding box, or a fraction of it.                      *)
OfBBox(len) == IF len.unit = "percent" THEN len.number ELSE len.number * 100

(* C14: under objectBoundingBox units, which are the default, the rectangle *)
(* of a Mask has x = -10%, y = -10%, width = 120%, height = 120% of the     *)
(* bounding box for the attributes the element does not specify, and the    *)
(* specified value for each attribute it does specify.                       *)
C14_DefaultRect ==
    \A i \in 1..Len(heap) :
        LET m == heap[i]
            a == doc[m.id].attrs
        IN  (a.maskUnits = None \/ a.maskUnits = Some(ObjectBoundingBox)) =>
                /\ m.units = ObjectBoundingBox
                /\ m.rect.x = IF a.x = None THEN -10 ELSE OfBBox(a.x[1])
                /\ m.rect.y = IF a.y = None THEN -10 ELSE OfBBox(a.y[1])
                /\ m.rect.width =
                        IF a.width = None THEN 120 ELSE OfBBox(a.width[1])
                /\ m.rect.height =
                        IF a.height = None THEN 120 ELSE OfBBox(a.height[1])

(* A mask without any of the attributes and a mask that specifies only x    *)
(* have both been resolved.                                                  *)
C14_Witness ==
    /\ {"a", "b"} \subseteq DOMAIN masks
    /\ doc["a"].attrs = NoAttrs
    /\ heap[masks["a"]].rect = [x |-> -10, y |-> -10, width |-> 120, height |-> 120]
    /\ heap[masks["b"]].rect = [x |-> 500, y |-> -10, width |-> 120, height |-> 120]

====
